---- MODULE Spec2Model ----
(***************************************************************************)
(* Start-time detection of the music-bingo scripts.                        *)
(*                                                                         *)
(*   scripts/detect_start_times.py  detect_best_start_time, process_folder *)
(*   scripts/trim_clips.py          find_chorus_start, trim_audio,         *)
(*                                  process_folder                         *)
(*                                                                         *)
(* Numbers.  Seconds, scores and confidences are exact rationals           *)
(* [num, den]; the floating-point rounding of numpy is not modelled.  Raw  *)
(* feature values are integers in a unit u chosen so that the 1e-10 of the *)
(* normalisation is EpsUnits units.  The audio length is given in          *)
(* milliseconds (what pydub reports); the decoded sample count follows     *)
(* from it at 22050 Hz.                                                    *)
(***************************************************************************)
EXTENDS Integers, Sequences, FiniteSets, TLC

VARIABLES
    \* ---- one call of detect_best_start_time / find_chorus_start ----
    variant,            \* "detect" | "trim": which script's function runs
    target_duration,    \* target_duration / clip_duration, seconds
    length_ms,          \* length of the audio file, milliseconds
    load_ok,            \* librosa.load and get_duration succeed
    feat_ok,            \* the feature computation succeeds
    pydub_ok,           \* AudioSegment.from_file succeeds (trim's handler)
    shapes,             \* the content of the file: shape of each raw feature
    pc,                 \* position in the function
    path,               \* the stages executed so far, in order
    duration,           \* samples decoded (duration = samples / sr)
    rms, spectral_centroids, onset_env,     \* raw features
    rms_norm, sc_norm, onset_norm,          \* normalised features
    combined,           \* combined (detect: combined_smooth) series
    window_frames, start_frame, end_frame,
    i,                  \* loop variable of the window scan
    scanned,            \* the start frames the loop has evaluated, in order
    best_start, best_score,
    result,             \* the returned (start_time, confidence)
    \* ---- process_folder ----
    audio_files,        \* the files found, in directory order
    outcome,            \* per file: how its analysis and its trimming end
    output_files,       \* trim_clips: the stems present in the output folder
    idx,                \* files visited so far
    visited,            \* the files visited, in order
    songs,              \* detect_start_times: the song records
    results             \* trim_clips: processed, failed, skipped, details

callVars == <<variant, target_duration, length_ms, load_ok, feat_ok, pydub_ok,
              shapes, pc, path, duration, rms, spectral_centroids, onset_env,
              rms_norm, sc_norm, onset_norm, combined, window_frames,
              start_frame, end_frame, i, scanned, best_start, best_score,
              result>>
batchVars == <<audio_files, outcome, output_files, idx, visited, songs, results>>
vars == <<callVars, batchVars>>

(***************************************************************************)
(* Bounds of the model                                                     *)
(***************************************************************************)
\* 1e-10 is EpsUnits units of the raw features
EpsUnits == 2
\* frames beyond the length at which the search range becomes non-empty
MaxExtra == 3
\* largest raw feature value, in units
MaxRaw == 5
\* series of the stand-alone scan and normalisation: length and values
MaxLen == 4
MaxVal == 2
\* files of a batch
MaxFiles == 3

(***************************************************************************)
(* Program constants                                                       *)
(***************************************************************************)
sr == 22050
hop_length == 512
window_size == 10
GuardSecsDetect == 5
GuardSecsTrim == 10
DefaultDuration == 45

(***************************************************************************)
(* Arithmetic                                                              *)
(***************************************************************************)
RECURSIVE GCD(_, _)
GCD(a, b) == IF b = 0 THEN a ELSE GCD(b, a % b)

LCM(a, b) == (a * b) \div GCD(a, b)

Rat(n, d) == LET g == GCD(IF n < 0 THEN -n ELSE n, d)
             IN  [num |-> n \div g, den |-> d \div g]

RatLT(a, b) == IF a.den = b.den THEN a.num < b.num
               ELSE a.num * b.den < b.num * a.den
RatGT(a, b) == RatLT(b, a)
RatLE(a, b) == ~RatLT(b, a)
RatMin(a, b) == IF RatLT(b, a) THEN b ELSE a
RatMax(a, b) == IF RatLT(a, b) THEN b ELSE a
RatAdd(a, b) == Rat(a.num * b.den + b.num * a.den, a.den * b.den)
RatMul(a, b) == LET x == Rat(a.num, b.den)
                    y == Rat(b.num, a.den)
                IN  [num |-> x.num * y.num, den |-> x.den * y.den]
RatDiv(a, b) == RatMul(a, [num |-> b.den, den |-> b.num])
Zero == [num |-> 0, den |-> 1]
One == [num |-> 1, den |-> 1]

\* int(n / d) of Python for n >= 0, d > 0: truncation
IntTrunc(n, d) == n \div d

\* round(n / d) of Python for n >= 0, d > 0: to nearest, halves to even
Round(n, d) ==
    LET q == n \div d
        r == n % d
    IN  IF 2 * r < d THEN q
        ELSE IF 2 * r > d THEN q + 1
        ELSE IF q % 2 = 0 THEN q ELSE q + 1

RECURSIVE SumRange(_, _, _)
\* s[a] + ... + s[b]
SumRange(s, a, b) ==
    IF a > b THEN 0
    ELSE IF a = b THEN s[a]
    ELSE LET m == (a + b) \div 2
         IN  SumRange(s, a, m) + SumRange(s, m + 1, b)

SeqMin(s) == LET S == {s[k] : k \in DOMAIN s}
             IN  CHOOSE m \in S : \A x \in S : m <= x
SeqMax(s) == LET S == {s[k] : k \in DOMAIN s}
             IN  CHOOSE m \in S : \A x \in S : m >= x

(***************************************************************************)
(* The analysis pipeline as the two functions compute it                   *)
(***************************************************************************)
\* samples decoded at sr from a file of ms milliseconds
Samples(ms) == (ms * (sr \div 50)) \div 20

\* frames of each feature over n samples: librosa centres its frames and
\* advances by hop_length, so the three features have the same length
FrameCount(n) == 1 + n \div hop_length

\* `duration <= target_duration`, duration = n / sr
ShortSignalLT(n, T) == n < T * sr
ShortSignal(n, T) == n <= T * sr

\* detect_start_times.py: the nested normalize(arr)
normalizeNoEps(arr) ==
    LET mn == SeqMin(arr)
        mx == SeqMax(arr)
    IN  [num |-> [k \in DOMAIN arr |-> arr[k] - mn],
         den |-> IF mx = mn THEN 1 ELSE mx - mn]
normalize(arr) ==
    LET arr_min == SeqMin(arr)
        arr_max == SeqMax(arr)
    IN  IF arr_max - arr_min < EpsUnits
        THEN [num |-> [k \in DOMAIN arr |-> 0], den |-> 1]
        ELSE [num |-> [k \in DOMAIN arr |-> arr[k] - arr_min],
              den |-> arr_max - arr_min]

\* trim_clips.py: (x - x.min()) / (x.max() - x.min() + 1e-10)
normalize_inline(arr) ==
    LET arr_min == SeqMin(arr)
        arr_max == SeqMax(arr)
    IN  [num |-> [k \in DOMAIN arr |-> arr[k] - arr_min],
         den |-> arr_max - arr_min + EpsUnits]

\* 0.4 * rms_norm + 0.3 * sc_norm + 0.3 * onset_norm
combine_detect(a, b, c) ==
    LET l == LCM(LCM(a.den, b.den), c.den)
    IN  [num |-> [k \in DOMAIN a.num |->
                    4 * a.num[k] * (l \div a.den)
                  + 3 * b.num[k] * (l \div b.den)
                  + 3 * c.num[k] * (l \div c.den)],
         den |-> 10 * l]

\* 0.6 * rms_norm + 0.4 * sc_norm
combine_trim(a, b) ==
    LET l == LCM(a.den, b.den)
    IN  [num |-> [k \in DOMAIN a.num |->
                    6 * a.num[k] * (l \div a.den)
                  + 4 * b.num[k] * (l \div b.den)],
         den |-> 10 * l]

\* np.convolve(combined, np.ones(window_size)/window_size, mode='same'):
\* frame f gets the sum of frames f-5 .. f+4 that exist, over window_size
smooth(c) ==
    LET L == Len(c.num)
        lo(k) == IF k - window_size \div 2 < 1 THEN 1 ELSE k - window_size \div 2
        hi(k) == IF k + (window_size - window_size \div 2 - 1) > L THEN L
                 ELSE k + (window_size - window_size \div 2 - 1)
    IN  [num |-> [k \in 1..L |-> SumRange(c.num, lo(k), hi(k))],
         den |-> c.den * window_size]

\* int(target_duration * sr / hop_length)
WindowFramesRound(T) == Round(T * sr, hop_length)
WindowFrames(T) == IntTrunc(T * sr, hop_length)

\* int(5 * sr / hop_length), int(10 * sr / hop_length)
GuardFrames(v) ==
    IF v = "detect" THEN IntTrunc(GuardSecsDetect * sr, hop_length)
    ELSE IntTrunc(GuardSecsTrim * sr, hop_length)

\* end_frame: detect keeps no guard band at the tail
EndFrame(v, L, w) ==
    IF v = "detect" THEN L - w
    ELSE L - w - IntTrunc(GuardSecsTrim * sr, hop_length)

\* `if end_frame <= start_frame`
EmptyRangeLT(s, e) == e < s
EmptyRange(s, e) == e <= s

\* range(start_frame, end_frame)
ScanRangeInclusive(s, e) == s..e
ScanRange(s, e) == s..(e - 1)

\* best_start before the loop: detect line 102, trim line 71
InitialBestStart(v, s) == IF v = "detect" THEN s ELSE 0

\* np.mean(series[i : i + w]), i counted from 0
WindowScore(series, k, w) ==
    LET L == Len(series.num)
        hi == IF k + w > L THEN L ELSE k + w
    IN  [num |-> SumRange(series.num, k + 1, hi), den |-> series.den * (hi - k)]

\* `if window_score > best_score`
Better(score, best) == RatGT(score, best)

\* librosa.frames_to_time(frame, sr, hop_length)
frames_to_time(f) == Rat(f * hop_length, sr)

\* start_time: times[best_start]; detect rounds it to the nearest second
StartTime(v, b, L) ==
    LET t == IF b < L THEN frames_to_time(b) ELSE Zero
    IN  IF v = "detect" THEN [num |-> Round(t.num, t.den), den |-> 1] ELSE t

\* np.mean(combined_smooth)
AvgScore(series) ==
    Rat(SumRange(series.num, 1, Len(series.num)), series.den * Len(series.num))

\* detect: min(1.0, best_score / (avg_score + 0.01))
\* trim:   min(1.0, best_score * 1.5)
ConfidenceUnclamped(v, best, series) ==
    IF v = "detect"
    THEN RatDiv(Rat(best.num, best.den), RatAdd(AvgScore(series), Rat(1, 100)))
    ELSE RatMul(Rat(best.num, best.den), Rat(3, 2))
Confidence(v, best, series) ==
    RatMin(One, ConfidenceUnclamped(v, best, series))

\* the divisor of the proportional fallbacks
FallbackDivisor(v) == IF v = "detect" THEN 4 ELSE 3

\* max(0, (duration - target_duration) / k), 0.5
Fallback2(v, n, T) ==
    [start |-> RatMax(Zero, Rat(n - T * sr, FallbackDivisor(v) * sr)),
     confidence |-> Rat(1, 2)]

\* the except branch
Fallback3Div4(v, ms, T, pydub) ==
    IF v = "detect" THEN [start |-> Rat(30, 1), confidence |-> Rat(3, 10)]
    ELSE IF pydub
         THEN [start |-> RatMax(Zero, Rat(ms - 1000 * T, 4 * 1000)),
               confidence |-> Rat(3, 10)]
         ELSE [start |-> Rat(30, 1), confidence |-> Rat(1, 10)]
Fallback3(v, ms, T, pydub) ==
    IF v = "detect" THEN [start |-> Rat(30, 1), confidence |-> Rat(3, 10)]
    ELSE IF pydub
         THEN [start |-> RatMax(Zero, Rat(ms - 1000 * T, 3 * 1000)),
               confidence |-> Rat(3, 10)]
         ELSE [start |-> Rat(30, 1), confidence |-> Rat(1, 10)]

\* `return 0.0, 0.5`
ShortResult == [start |-> Zero, confidence |-> Rat(1, 2)]

(***************************************************************************)
(* Inputs of one call                                                      *)
(***************************************************************************)
\* a raw feature over L frames; frames count from 0, pos is a frame
RawSeries(shape, L) ==
    [k \in 1..L |->
        IF shape.kind = "flat" THEN shape.h
        ELSE IF shape.kind = "step" THEN (IF k - 1 < shape.pos THEN 0 ELSE shape.h)
        ELSE (IF k - 1 < shape.pos THEN shape.h ELSE 0)]

Flat(h) == [kind |-> "flat", pos |-> 0, h |-> h]

\* values below, at and above the 1e-10 of the normalisation
Heights == {1, EpsUnits, MaxRaw}

\* silence, a constant, a rise or a fall near the head of the search range
ShapesFull(v) ==
    {Flat(0), Flat(MaxRaw)}
    \cup {[kind |-> k, pos |-> GuardFrames(v) + off, h |-> h] :
            k \in {"step", "drop"}, off \in 0..MaxExtra, h \in Heights}
ShapesSmall(v) ==
    {Flat(0), [kind |-> "step", pos |-> GuardFrames(v) + 1, h |-> MaxRaw]}

Durations == {1, DefaultDuration}

\* the shortest length, a multiple of 20 ms, that decodes to L frames
MsForFrames(L) == 20 * (((L - 1) * hop_length + (sr \div 50) - 1) \div (sr \div 50))

\* lengths around the target duration
ShortMs(T) == {1000 * T - 20, 1000 * T, 1000 * T + 20}
\* lengths around the one at which the search range becomes non-empty
EdgeMs(v, T) ==
    {MsForFrames(WindowFrames(T) + (GuardFrames(v) - EndFrame(v, 0, 0)) + e) :
        e \in (0 - 1)..MaxExtra}
\* a two-minute file
LongMs == 120 * 1000

NoSeries == <<>>
NoNorm == [num |-> <<>>, den |-> 1]
NoResult == [start |-> Zero, confidence |-> Zero]

BatchIdle ==
    /\ audio_files = <<>>
    /\ outcome = <<>>
    /\ output_files = {}
    /\ idx = 0
    /\ visited = <<>>
    /\ songs = <<>>
    /\ results = [processed |-> 0, failed |-> 0, skipped |-> 0, details |-> <<>>]

CallStart ==
    /\ pc = "start"
    /\ path = <<>>
    /\ duration = 0
    /\ rms = NoSeries /\ spectral_centroids = NoSeries /\ onset_env = NoSeries
    /\ rms_norm = NoNorm /\ sc_norm = NoNorm /\ onset_norm = NoNorm
    /\ combined = NoNorm
    /\ window_frames = 0 /\ start_frame = 0 /\ end_frame = 0
    /\ i = 0 /\ scanned = <<>>
    /\ best_start = 0 /\ best_score = Zero
    /\ result = NoResult

CallIdle ==
    /\ variant = "detect" /\ target_duration = DefaultDuration /\ length_ms = 0
    /\ load_ok = TRUE /\ feat_ok = TRUE /\ pydub_ok = TRUE
    /\ shapes = <<Flat(0), Flat(0), Flat(0)>>
    /\ CallStart

Init ==
    /\ variant \in {"detect", "trim"}
    /\ target_duration \in Durations
    /\ length_ms \in ShortMs(target_duration) \cup EdgeMs(variant, target_duration)
                     \cup (IF target_duration = DefaultDuration THEN {LongMs} ELSE {})
    /\ load_ok \in BOOLEAN
    /\ feat_ok \in BOOLEAN
    /\ pydub_ok \in BOOLEAN
    \* the flags that are never read are fixed
    /\ ~load_ok => feat_ok
    /\ (variant = "detect" \/ (load_ok /\ feat_ok)) => pydub_ok
    \* the two-minute file is followed on the failure paths only
    /\ length_ms = LongMs => ~(load_ok /\ feat_ok)
    \* the content matters once the features are computed: every shape at a
    \* target of 1 s, silence or constant features at the default 45 s
    /\ IF load_ok /\ feat_ok /\ length_ms \in EdgeMs(variant, target_duration)
       THEN IF target_duration = 1
            THEN shapes \in ShapesFull(variant) \X ShapesSmall(variant)
                            \X (IF variant = "detect" THEN ShapesSmall(variant)
                                ELSE {Flat(0)})
            ELSE shapes \in {<<Flat(0), Flat(0), Flat(0)>>,
                             <<Flat(MaxRaw), Flat(1), Flat(0)>>}
       ELSE shapes = <<Flat(0), Flat(0), Flat(0)>>
    /\ CallStart
    /\ BatchIdle

(***************************************************************************)
(* detect_best_start_time / find_chorus_start, step by step                *)
(***************************************************************************)
inputVars == <<variant, target_duration, length_ms, load_ok, feat_ok, pydub_ok, shapes>>

\* a step of the call: its arguments and the batch are left alone
CallStep == UNCHANGED <<inputVars, batchVars>>

Return(r, stage) ==
    /\ result' = r
    /\ path' = Append(path, stage)
    /\ pc' = "done"

\* y, sr = librosa.load(...); duration = librosa.get_duration(...)
Load ==
    /\ CallStep
    /\ pc = "start"
    /\ load_ok
    /\ duration' = Samples(length_ms)
    /\ path' = Append(path, "load")
    /\ pc' = "loaded"
    /\ UNCHANGED <<rms, spectral_centroids, onset_env, rms_norm, sc_norm, onset_norm,
                   combined, window_frames, start_frame, end_frame, i, scanned,
                   best_start, best_score, result>>

\* if duration <= target_duration: return 0.0, 0.5
Short ==
    /\ CallStep
    /\ pc = "loaded"
    /\ ShortSignal(duration, target_duration)
    /\ Return(ShortResult, "short")
    /\ UNCHANGED <<duration, rms, spectral_centroids, onset_env, rms_norm, sc_norm,
                   onset_norm, combined, window_frames, start_frame, end_frame, i,
                   scanned, best_start, best_score>>

\* rms, spectral_centroids, onset_env: one value per frame
Extract ==
    /\ CallStep
    /\ pc = "loaded"
    /\ ~ShortSignal(duration, target_duration)
    /\ feat_ok
    /\ LET L == FrameCount(duration)
           r == RawSeries(shapes[1], L)
           c == RawSeries(shapes[2], L)
           o == RawSeries(shapes[3], L)
           min_len == SeqMin(<<Len(r), Len(c), Len(o)>>)
       IN  IF variant = "detect"
           THEN /\ rms' = SubSeq(r, 1, min_len)
                /\ spectral_centroids' = SubSeq(c, 1, min_len)
                /\ onset_env' = SubSeq(o, 1, min_len)
           ELSE /\ rms' = r
                /\ spectral_centroids' = c
                /\ onset_env' = NoSeries
    /\ path' = Append(path, "extract")
    /\ pc' = "features"
    /\ UNCHANGED <<duration, rms_norm, sc_norm, onset_norm, combined, window_frames,
                   start_frame, end_frame, i, scanned, best_start, best_score, result>>

\* rms_norm, sc_norm, onset_norm
Normalize ==
    /\ CallStep
    /\ pc = "features"
    /\ IF variant = "detect"
       THEN /\ rms_norm' = normalize(rms)
            /\ sc_norm' = normalize(spectral_centroids)
            /\ onset_norm' = normalize(onset_env)
       ELSE /\ rms_norm' = normalize_inline(rms)
            /\ sc_norm' = normalize_inline(spectral_centroids)
            /\ onset_norm' = onset_norm
    /\ path' = Append(path, "normalize")
    /\ pc' = "normalized"
    /\ UNCHANGED <<duration, rms, spectral_centroids, onset_env, combined, window_frames,
                   start_frame, end_frame, i, scanned, best_start, best_score, result>>

\* combined (detect: combined_smooth)
Combine ==
    /\ CallStep
    /\ pc = "normalized"
    /\ combined' = IF variant = "detect"
                   THEN smooth(combine_detect(rms_norm, sc_norm, onset_norm))
                   ELSE combine_trim(rms_norm, sc_norm)
    /\ path' = Append(path, "combine")
    /\ pc' = "combined"
    /\ UNCHANGED <<duration, rms, spectral_centroids, onset_env, rms_norm, sc_norm,
                   onset_norm, window_frames, start_frame, end_frame, i, scanned,
                   best_start, best_score, result>>

\* window_frames, start_frame, end_frame; the level-2 fallback or the loop's start
Range ==
    /\ CallStep
    /\ pc = "combined"
    /\ LET w == WindowFrames(target_duration)
           s == GuardFrames(variant)
           e == EndFrame(variant, Len(combined.num), w)
       IN  /\ window_frames' = w
           /\ start_frame' = s
           /\ end_frame' = e
           /\ best_start' = InitialBestStart(variant, s)
           /\ best_score' = Zero
           /\ IF EmptyRange(s, e)
              THEN /\ Return(Fallback2(variant, duration, target_duration), "fallback2")
                   /\ i' = i
              ELSE /\ i' = s
                   /\ path' = Append(path, "scan")
                   /\ pc' = "scan"
                   /\ result' = result
    /\ UNCHANGED <<duration, rms, spectral_centroids, onset_env, rms_norm, sc_norm,
                   onset_norm, combined, scanned>>

\* one iteration of `for i in range(start_frame, end_frame)`
ScanStep ==
    /\ CallStep
    /\ pc = "scan"
    /\ i \in ScanRange(start_frame, end_frame)
    /\ LET window_score == WindowScore(combined, i, window_frames)
       IN  IF Better(window_score, best_score)
           THEN best_score' = window_score /\ best_start' = i
           ELSE UNCHANGED <<best_score, best_start>>
    /\ scanned' = Append(scanned, i)
    /\ i' = i + 1
    /\ UNCHANGED <<pc, path, duration, rms, spectral_centroids, onset_env, rms_norm,
                   sc_norm, onset_norm, combined, window_frames, start_frame, end_frame,
                   result>>

\* after the loop: start_time, confidence, return
Finish ==
    /\ CallStep
    /\ pc = "scan"
    /\ i \notin ScanRange(start_frame, end_frame)
    /\ Return([start |-> StartTime(variant, best_start, Len(combined.num)),
               confidence |-> Confidence(variant, best_score, combined)], "convert")
    /\ UNCHANGED <<duration, rms, spectral_centroids, onset_env, rms_norm, sc_norm,
                   onset_norm, combined, window_frames, start_frame, end_frame, i,
                   scanned, best_start, best_score>>

\* except Exception: the handler
Handler ==
    /\ CallStep
    /\ Return(Fallback3(variant, length_ms, target_duration, pydub_ok), "except")
    /\ UNCHANGED <<duration, rms, spectral_centroids, onset_env, rms_norm, sc_norm,
                   onset_norm, combined, window_frames, start_frame, end_frame, i,
                   scanned, best_start, best_score>>

\* librosa.load raises
LoadFails ==
    /\ pc = "start"
    /\ ~load_ok
    /\ Handler

\* the feature computation raises
ExtractFails ==
    /\ pc = "loaded"
    /\ ~ShortSignal(duration, target_duration)
    /\ ~feat_ok
    /\ Handler

Next ==
    \/ Load
    \/ Short
    \/ Extract
    \/ Normalize
    \/ Combine
    \/ Range
    \/ ScanStep
    \/ Finish
    \/ LoadFails
    \/ ExtractFails

Spec == Init /\ [][Next]_vars

(***************************************************************************)
(* Properties of one call                                                  *)
(***************************************************************************)
Returned(stage) == pc = "done" /\ path # <<>> /\ path[Len(path)] = stage
Ran(stage) == \E k \in DOMAIN path : path[k] = stage

\* the guard bands in frames, from the seconds the two functions state
HeadGuard == IF variant = "detect" THEN (5 * 22050) \div 512 ELSE (10 * 22050) \div 512
TailGuard == IF variant = "detect" THEN 0 ELSE (10 * 22050) \div 512
\* the last start frame of the inclusive range [g_head, L - w - g_tail]
LastStart == Len(combined.num) - window_frames - TailGuard

\* C1: whenever [g_head, L - w - g_tail] is non-empty, the start frame the
\* scan hands to the frame-to-seconds conversion lies inside it, in both
\* variants, also for a series whose every window mean is 0.
C1_StartInRange ==
    (Returned("convert") /\ HeadGuard <= LastStart)
        => (HeadGuard <= best_start /\ best_start <= LastStart)

\* C2 as stated: the scan evaluates every start frame of the inclusive range
\* [g_head, L - w - g_tail], and the level-2 fallback is returned exactly
\* when duration > target and that inclusive range is empty.
C2_InclusiveRange ==
    (pc = "done" /\ Ran("combine"))
        => /\ Returned("fallback2") <=> LastStart < HeadGuard
           /\ Returned("convert") =>
                scanned = [k \in 1..(LastStart - HeadGuard + 1) |-> HeadGuard + k - 1]

\* C2 amended: the scan evaluates every start frame of the half-open range
\* [g_head, L - w - g_tail), and the level-2 fallback
\* (max(0, (duration - target) / k), 0.5), k = 4 in detect and 3 in trim, is
\* returned exactly when duration > target and L - w - g_tail <= g_head; a
\* range of exactly one start frame goes to the fallback.
C2_HalfOpenRange ==
    /\ (pc = "done" /\ Ran("combine"))
        => /\ Returned("fallback2") <=> LastStart <= HeadGuard
           /\ Returned("convert") <=> LastStart > HeadGuard
           /\ Returned("convert") =>
                scanned = [k \in 1..(LastStart - HeadGuard) |-> HeadGuard + k - 1]
           /\ Returned("fallback2") =>
                /\ scanned = <<>>
                /\ result.confidence = Rat(1, 2)
                /\ result.start =
                     Rat(duration - target_duration * 22050,
                         (IF variant = "detect" THEN 4 ELSE 3) * 22050)
    /\ Returned("fallback2") => (Ran("combine") /\ duration > target_duration * 22050)

C2_Witness ==
    /\ Returned("fallback2")
    /\ LastStart = HeadGuard
    /\ result.start.num > 0

\* C3: for audio whose duration is <= the target duration both functions
\* return exactly (0.0, 0.5), and run neither the feature extraction, nor the
\* scan, nor the level-2 fallback.
C3_ShortSignal ==
    (load_ok /\ length_ms <= 1000 * target_duration)
        => /\ pc = "done" => (result = [start |-> Zero, confidence |-> Rat(1, 2)]
                              /\ path = <<"load", "short">>)
           /\ ~Ran("extract") /\ ~Ran("scan") /\ ~Ran("fallback2") /\ ~Ran("except")

C3_Witness ==
    /\ Returned("short")
    /\ length_ms = 1000 * target_duration
    /\ result = [start |-> Zero, confidence |-> Rat(1, 2)]

\* C4: the scan returns the smallest index of the search range whose window
\* mean is the maximum over the range.
C4_EarliestMaximum ==
    Returned("convert") =>
        LET R == HeadGuard..(LastStart - 1)
            score(k) == WindowScore(combined, k, window_frames)
        IN  /\ best_start \in R
            /\ \A k \in R : RatLE(score(k), score(best_start))
            /\ \A k \in R : k < best_start => RatLT(score(k), score(best_start))

\* C5: on every path the result has start_time >= 0 and 0 <= confidence <= 1.
C5_ResultBounds ==
    pc = "done" =>
        /\ result.start.den > 0 /\ result.start.num >= 0
        /\ result.confidence.den > 0 /\ result.confidence.num >= 0
        /\ result.confidence.num <= result.confidence.den

C5_Witness ==
    /\ Returned("convert")
    /\ result.confidence = One
    /\ RatGT(ConfidenceUnclamped(variant, best_score, combined), One)

\* C6 as stated: when the analysis raises and the duration can still be
\* obtained, each variant returns (max(0, (duration - target) / k), 0.3) with
\* its own divisor k; the absolute fallback only when it cannot.
C6_ProportionalBoth ==
    Returned("except") =>
        LET k == IF variant = "detect" THEN 4 ELSE 3
            known == IF variant = "detect" THEN load_ok ELSE pydub_ok
        IN  /\ known => result = [start |-> RatMax(Zero, Rat(length_ms - 1000 * target_duration, 1000 * k)),
                                  confidence |-> Rat(3, 10)]
            /\ result.start = Rat(30, 1) => ~known

\* C6 amended: find_chorus_start returns (max(0, (duration - target) / 3),
\* 0.3) when the analysis raises and pydub can read the file, (25.0, 0.3) for
\* 120 s and 45 s, and (30.0, 0.1) when pydub cannot; detect_best_start_time
\* returns (30.0, 0.3) whenever the analysis raises.
C6_Fallback3 ==
    Returned("except") =>
        IF variant = "detect"
        THEN result = [start |-> Rat(30, 1), confidence |-> Rat(3, 10)]
        ELSE /\ pydub_ok =>
                  /\ result.confidence = Rat(3, 10)
                  /\ result.start =
                       (IF length_ms > 1000 * target_duration
                        THEN Rat(length_ms - 1000 * target_duration, 3000) ELSE Zero)
                  /\ (length_ms = 120000 /\ target_duration = 45) => result.start = Rat(25, 1)
             /\ ~pydub_ok => result = [start |-> Rat(30, 1), confidence |-> Rat(1, 10)]

C6_Witness ==
    /\ Returned("except")
    /\ variant = "trim" /\ pydub_ok
    /\ length_ms = 120000 /\ target_duration = 45
    /\ result = [start |-> Rat(25, 1), confidence |-> Rat(3, 10)]

\* C8 as stated: the window length the scan uses is
\* round(duration * sample_rate / hop_length).
C8_WindowRounded ==
    Ran("scan") => window_frames = Round(target_duration * 22050, 512)

\* C8 amended: the window length the scan uses is
\* int(duration * sample_rate / hop_length), the quotient truncated: 1937
\* frames with the defaults (45 s, 22050 Hz, hop 512), where rounding gives 1938.
C8_WindowTruncated ==
    Ran("scan") =>
        /\ window_frames = (target_duration * 22050) \div 512
        /\ target_duration = 45 => window_frames = 1937

C8_Witness ==
    /\ Returned("convert")
    /\ target_duration = 45
    /\ window_frames = 1937
    /\ Len(scanned) > 0

(***************************************************************************)
(* The normalisation on its own: every short series                        *)
(***************************************************************************)
SmallSeries == UNION {[1..n -> 0..MaxVal] : n \in 1..MaxLen}

InitNorm ==
    /\ variant \in {"detect", "trim"}
    /\ target_duration = DefaultDuration /\ length_ms = 0
    /\ load_ok = TRUE /\ feat_ok = TRUE /\ pydub_ok = TRUE
    /\ shapes = <<Flat(0), Flat(0), Flat(0)>>
    /\ pc = "features"
    /\ path = <<"load", "extract">>
    /\ duration = 0
    /\ rms \in SmallSeries
    /\ spectral_centroids = [k \in DOMAIN rms |-> MaxVal - rms[k]]
    /\ onset_env = IF variant = "detect" THEN [k \in DOMAIN rms |-> rms[1]] ELSE NoSeries
    /\ rms_norm = NoNorm /\ sc_norm = NoNorm /\ onset_norm = NoNorm
    /\ combined = NoNorm
    /\ window_frames = 0 /\ start_frame = 0 /\ end_frame = 0
    /\ i = 0 /\ scanned = <<>>
    /\ best_start = 0 /\ best_score = Zero
    /\ result = NoResult
    /\ BatchIdle

NextNorm == Normalize

SpecNorm == InitNorm /\ [][NextNorm]_vars

\* out is arr rescaled onto exactly [0, 1], or all zeros for a constant arr
ExactUnitRange(arr, out) ==
    LET mn == SeqMin(arr)
        mx == SeqMax(arr)
    IN  /\ DOMAIN out.num = DOMAIN arr
        /\ mx > mn => /\ \A k \in DOMAIN arr : 0 <= out.num[k] /\ out.num[k] <= out.den
                      /\ \A k \in DOMAIN arr : arr[k] = mn => out.num[k] = 0
                      /\ \A k \in DOMAIN arr : arr[k] = mx => out.num[k] = out.den
        /\ mx = mn => \A k \in DOMAIN arr : out.num[k] = 0

\* C9 as stated: in both variants a series with max > min is mapped onto
\* exactly [0, 1] (minimum frame 0, maximum frame 1), a constant one to zeros.
C9_ExactUnitRange ==
    pc = "normalized" =>
        /\ ExactUnitRange(rms, rms_norm)
        /\ ExactUnitRange(spectral_centroids, sc_norm)
        /\ variant = "detect" => ExactUnitRange(onset_env, onset_norm)

\* what each variant computes for arr
NormalisedAsCoded(v, arr, out) ==
    LET mn == SeqMin(arr)
        mx == SeqMax(arr)
    IN  /\ DOMAIN out.num = DOMAIN arr
        /\ out.den > 0
        /\ IF v = "detect"
           THEN /\ mx - mn >= EpsUnits =>
                    \A k \in DOMAIN arr : out.num[k] * (mx - mn) = (arr[k] - mn) * out.den
                /\ mx - mn < EpsUnits => \A k \in DOMAIN arr : out.num[k] = 0
           ELSE /\ \A k \in DOMAIN arr :
                    out.num[k] * (mx - mn + EpsUnits) = (arr[k] - mn) * out.den
                /\ \A k \in DOMAIN arr : out.num[k] < out.den

\* C9 amended: detect's normalize maps a series with max - min >= 1e-10 onto
\* exactly [0, 1] and one with max - min < 1e-10 (a constant one included) to
\* zeros; trim's maps frame x to (x - min) / (max - min + 1e-10): the minimum
\* frame to 0, the maximum frame to a value below 1, a constant series to zeros.
C9_NormalisedAsCoded ==
    pc = "normalized" =>
        /\ NormalisedAsCoded(variant, rms, rms_norm)
        /\ NormalisedAsCoded(variant, spectral_centroids, sc_norm)
        /\ variant = "detect" => NormalisedAsCoded(variant, onset_env, onset_norm)

C9_Witness ==
    /\ pc = "normalized"
    /\ variant = "detect"
    /\ SeqMax(rms) - SeqMin(rms) >= EpsUnits
    /\ \E k \in DOMAIN rms : rms_norm.num[k] = rms_norm.den
    /\ \E k \in DOMAIN rms : rms_norm.num[k] = 0

(***************************************************************************)
(* The window scan on its own: any guard bands, any window length          *)
(***************************************************************************)
ScenarioA == [series |-> [k \in 1..200 |-> IF k - 1 \in 80..120 THEN 1 ELSE 0],
              w |-> 30, head |-> 0, tail |-> 0]
ScenarioB == {[series |-> [k \in 1..100 |-> a * k + b], w |-> 10, head |-> 0, tail |-> 0] :
                a \in 1..2, b \in 0..1}
              \cup {[series |-> [k \in 1..100 |-> k * k], w |-> 10, head |-> 0, tail |-> 0]}
ScanInputs ==
    {[series |-> s, w |-> w, head |-> h, tail |-> t] :
        s \in SmallSeries, w \in 1..2, h \in 0..1, t \in 0..1}
    \cup {ScenarioA} \cup ScenarioB

InitScan ==
    /\ variant \in {"detect", "trim"}
    /\ target_duration = DefaultDuration /\ length_ms = 0
    /\ load_ok = TRUE /\ feat_ok = TRUE /\ pydub_ok = TRUE
    /\ shapes = <<Flat(0), Flat(0), Flat(0)>>
    /\ \E in \in ScanInputs :
        /\ ~EmptyRange(in.head, Len(in.series) - in.w - in.tail)
        /\ combined = [num |-> in.series, den |-> 1]
        /\ window_frames = in.w
        /\ start_frame = in.head
        /\ end_frame = Len(in.series) - in.w - in.tail
        /\ best_start = InitialBestStart(variant, in.head)
        /\ i = in.head
    /\ best_score = Zero
    /\ pc = "scan"
    /\ path = <<"load", "extract", "normalize", "combine", "scan">>
    /\ duration = 0
    /\ rms = NoSeries /\ spectral_centroids = NoSeries /\ onset_env = NoSeries
    /\ rms_norm = NoNorm /\ sc_norm = NoNorm /\ onset_norm = NoNorm
    /\ scanned = <<>>
    /\ result = NoResult
    /\ BatchIdle

NextScan ==
    \/ ScanStep
    \/ Finish

SpecScan == InitScan /\ [][NextScan]_vars

StrictlyIncreasing(s) == \A k \in 1..(Len(s) - 1) : s[k] < s[k + 1]

\* C10: on a strictly increasing series the scan returns the last start frame
\* of its search range: 89 for length 100, window length 10, guard bands 0.
C10_IncreasingPicksLast ==
    (Returned("convert") /\ StrictlyIncreasing(combined.num)) =>
        /\ best_start = scanned[Len(scanned)]
        /\ \A k \in DOMAIN scanned : scanned[k] <= best_start
        /\ (Len(combined.num) = 100 /\ window_frames = 10 /\ start_frame = 0
            /\ end_frame = 100 - 10)
              => best_start = 89

C10_Witness ==
    /\ Returned("convert")
    /\ StrictlyIncreasing(combined.num)
    /\ Len(combined.num) = 100 /\ window_frames = 10 /\ start_frame = 0
    /\ best_start = 89
    /\ scanned = [k \in 1..90 |-> k - 1]

\* Scenario A: 200 zero frames with frames 80 to 120 at 1.0, window length 30,
\* no guard bands: the scan returns start frame 80.
ScenarioA_Start80 ==
    (Returned("convert") /\ combined.num = ScenarioA.series /\ window_frames = 30
     /\ start_frame = 0)
        => best_start = 80

(***************************************************************************)
(* process_folder                                                          *)
(***************************************************************************)
\* a file is stem * 10 + extension; paths sort by stem, then by extension
FileNames == {10 * st + ext : st \in 1..2, ext \in 1..2}
Stem(f) == f \div 10

RECURSIVE SortedOf(_)
SortedOf(S) ==
    IF S = {} THEN <<>>
    ELSE LET m == CHOOSE x \in S : \A y \in S : x <= y
         IN  <<m>> \o SortedOf(S \ {m})

\* what the directory listing can return: up to MaxFiles files, in
\* ascending order, in descending order or rotated by one
Listings ==
    UNION {LET a == SortedOf(S)
               n == Len(a)
           IN  {a, [k \in 1..n |-> a[n + 1 - k]], [k \in 1..n |-> a[(k % n) + 1]]} :
           S \in {T \in SUBSET FileNames : Cardinality(T) <= MaxFiles}}

\* sorted(audio_files)
Unsorted(files) == files
Sorted(files) == SortedOf({files[k] : k \in DOMAIN files})

\* the result of the analysis of file f: a short clip, or a two-minute file
\* whose analysis raises and that pydub reads
DetectionOf(v, f) ==
    IF outcome[f].analysis = "short" THEN ShortResult
    ELSE Fallback3(v, LongMs, DefaultDuration, TRUE)

InitBatch ==
    /\ variant \in {"detect", "trim"}
    /\ target_duration = DefaultDuration /\ length_ms = 0
    /\ load_ok = TRUE /\ feat_ok = TRUE /\ pydub_ok = TRUE
    /\ shapes = <<Flat(0), Flat(0), Flat(0)>>
    /\ CallStart
    /\ audio_files \in Listings
    /\ outcome \in [{audio_files[k] : k \in DOMAIN audio_files} ->
                      [analysis : {"short", "fails"}, trim_ok : BOOLEAN]]
    \* detect reads no trim outcome
    /\ \A f \in DOMAIN outcome : variant = "detect" => outcome[f].trim_ok
    /\ output_files \in (IF variant = "detect" THEN {{}} ELSE SUBSET {Stem(f) : f \in FileNames})
    /\ idx = 0
    /\ visited = <<>>
    /\ songs = <<>>
    /\ results = [processed |-> 0, failed |-> 0, skipped |-> 0, details |-> <<>>]

\* detect_start_times.py: one iteration of the loop of process_folder
DetectFile ==
    /\ UNCHANGED callVars
    /\ variant = "detect"
    /\ idx < Len(audio_files)
    /\ LET audio_file == Sorted(audio_files)[idx + 1]
           r == DetectionOf(variant, audio_file)
       IN  /\ songs' = Append(songs,
                 [audioFile |-> audio_file,
                  startTime |-> r.start,
                  confidence |-> Rat(Round(r.confidence.num * 100, r.confidence.den), 100)])
           /\ visited' = Append(visited, audio_file)
    /\ idx' = idx + 1
    /\ UNCHANGED <<audio_files, outcome, output_files, results>>

\* trim_clips.py: an iteration that finds the output file and skips
TrimSkip ==
    /\ UNCHANGED callVars
    /\ variant = "trim"
    /\ idx < Len(audio_files)
    /\ LET audio_file == Sorted(audio_files)[idx + 1]
       IN  /\ Stem(audio_file) \in output_files
           /\ results' = [results EXCEPT !.skipped = @ + 1]
           /\ visited' = Append(visited, audio_file)
    /\ idx' = idx + 1
    /\ UNCHANGED <<audio_files, outcome, output_files, songs>>

\* trim_clips.py: an iteration that analyses and trims
TrimFile ==
    /\ UNCHANGED callVars
    /\ variant = "trim"
    /\ idx < Len(audio_files)
    /\ LET audio_file == Sorted(audio_files)[idx + 1]
           r == DetectionOf(variant, audio_file)
       IN  /\ Stem(audio_file) \notin output_files
           /\ IF outcome[audio_file].trim_ok
              THEN /\ results' = [results EXCEPT
                                    !.processed = @ + 1,
                                    !.details = Append(@, [file |-> audio_file,
                                                           start |-> r.start,
                                                           confidence |-> r.confidence,
                                                           status |-> "success"])]
                   /\ output_files' = output_files \cup {Stem(audio_file)}
              ELSE /\ results' = [results EXCEPT
                                    !.failed = @ + 1,
                                    !.details = Append(@, [file |-> audio_file,
                                                           status |-> "failed"])]
                   \* a failed export may or may not leave a file behind
                   /\ output_files' \in {output_files, output_files \cup {Stem(audio_file)}}
           /\ visited' = Append(visited, audio_file)
    /\ idx' = idx + 1
    /\ UNCHANGED <<audio_files, outcome, songs>>

NextBatch ==
    \/ DetectFile
    \/ TrimSkip
    \/ TrimFile

\* the loop is sequential code: it keeps running while a file is left
SpecBatch == InitBatch /\ [][NextBatch]_vars /\ WF_vars(NextBatch)

\* the files visited, the song records and the counters after idx iterations
BatchCounts ==
    LET files == {audio_files[k] : k \in DOMAIN audio_files}
    IN  /\ idx <= Len(audio_files)
        /\ Len(visited) = idx
        /\ \A k \in DOMAIN visited :
             /\ visited[k] \in files
             /\ Cardinality({f \in files : f < visited[k]}) = k - 1
        /\ variant = "detect" =>
             /\ Len(songs) = idx
             /\ \A k \in DOMAIN songs : songs[k].audioFile = visited[k]
        /\ variant = "trim" =>
             /\ results.processed + results.failed + results.skipped = idx
             /\ Len(results.details) = idx - results.skipped
             /\ Cardinality({d.file : d \in {results.details[k] : k \in DOMAIN results.details}})
                  = Len(results.details)
             /\ Cardinality({k \in DOMAIN results.details :
                               results.details[k].status = "success"}) = results.processed

\* C7: whatever fails, process_folder visits every file once, in sorted
\* order, and reaches the end of the list; detect appends one song per file;
\* in trim processed + failed + skipped counts the files and details holds
\* one entry per file not skipped.
C7_BatchCompletes == []BatchCounts /\ <>(idx = Len(audio_files))

C7_Witness ==
    /\ variant = "trim"
    /\ idx = Len(audio_files)
    /\ idx >= 3
    /\ audio_files # visited
    /\ results.processed >= 1 /\ results.failed >= 1 /\ results.skipped >= 1
    /\ \E k \in DOMAIN results.details :
         /\ results.details[k].status = "success"
         /\ results.details[k].start = Rat(25, 1)

====
